---- MODULE Spec2Model ----
(***************************************************************************)
(* Model of dedupler (src/src/main.rs): main's single-file and directory   *)
(* modes and process_file's open / detect / create / dedup-loop / finish    *)
(* steps, over a small file system of decoded texts.                       *)
(*                                                                         *)
(* A text is a sequence of characters; a file is a text plus the encoding  *)
(* its bytes are stored in.  "e9" is the letter e-acute: one byte (0xE9)   *)
(* in windows-1252, two bytes in UTF-8.                                    *)
(***************************************************************************)
EXTENDS Integers, Sequences, FiniteSets, TLC

\* ---------------------------------------------------------------- bounds
MaxLen == 3      \* total number of characters in the input files
BufCap == 2      \* capacity in bytes of the BufWriter around the sink

\* ------------------------------------------------------------ characters
LF == "LF"
CR == "CR"
SP == "SP"
Chars == {"a", "e9", SP, CR, LF}
\* the characters of the alphabet with the Unicode White_Space property
WhiteSpace == {SP, CR, LF}

Encodings == {"UTF-8", "windows-1252"}

\* length in bytes of one character of a String (always UTF-8)
Utf8Len(c) == IF c = "e9" THEN 2 ELSE 1

\* length in bytes of one character as stored in a file of encoding enc
RawLen(enc, c) == IF enc = "windows-1252" THEN 1 ELSE Utf8Len(c)

RECURSIVE Bytes(_)
\* str.as_bytes().len()
Bytes(s) == IF s = <<>> THEN 0 ELSE Utf8Len(Head(s)) + Bytes(Tail(s))

RECURSIVE RawBytes(_, _)
\* number of bytes of the text s stored in encoding enc
RawBytes(enc, s) == IF s = <<>> THEN 0 ELSE RawLen(enc, Head(s)) + RawBytes(enc, Tail(s))

Front(s) == SubSeq(s, 1, Len(s) - 1)
Last(s) == s[Len(s)]

\* ------------------------------------------------------- pure functions
\* BufRead::read_line: the characters after position pos up to and
\* including the next LF, or up to the end of the text; <<>> at the end
ReadLine(text, pos) ==
  IF pos >= Len(text) THEN <<>>
  ELSE LET nl == {i \in (pos + 1)..Len(text) : text[i] = LF}
           end == IF nl = {} THEN Len(text)
                  ELSE CHOOSE i \in nl : \A j \in nl : i <= j
       IN SubSeq(text, pos + 1, end)

\* a trim that removes nothing
TrimEndId(s) == s

RECURSIVE TrimEnd(_)
\* str::trim_end: removes every trailing White_Space character
TrimEnd(s) ==
  IF s = <<>> THEN s
  ELSE IF Last(s) \in WhiteSpace THEN TrimEnd(Front(s)) ELSE s

ZeroStats == [total_lines |-> 0, duplicate_lines |-> 0, lines_written |-> 0]

\* the iteration with the insertion into the set left out
DedupStepNoInsert(seen, st, line) ==
  LET key == TrimEnd(line) IN
  IF key \notin seen
  THEN [seen |-> seen, emit |-> TRUE, key |-> key,
        stats |-> [st EXCEPT !.total_lines = @ + 1, !.lines_written = @ + 1]]
  ELSE [seen |-> seen, emit |-> FALSE, key |-> key,
        stats |-> [st EXCEPT !.total_lines = @ + 1, !.duplicate_lines = @ + 1]]

\* one iteration of the dedup loop on the line just read, without the write:
\* emit says whether key is written to the writer
DedupStep(seen, st, line) ==
  LET key == TrimEnd(line) IN
  IF key \notin seen
  THEN [seen |-> seen \cup {key}, emit |-> TRUE, key |-> key,
        stats |-> [st EXCEPT !.total_lines = @ + 1, !.lines_written = @ + 1]]
  ELSE [seen |-> seen, emit |-> FALSE, key |-> key,
        stats |-> [st EXCEPT !.total_lines = @ + 1, !.duplicate_lines = @ + 1]]

\* -------------------------------------------------------------- BufWriter
\* a writer is [buf, sink, err]: the bytes held back, the bytes delivered,
\* and whether a write returned an error

\* BufWriter::flush_buf; ok is whether the sink accepts the write
FlushBuf(w, ok) ==
  IF w.buf = <<>> THEN w
  ELSE IF ok THEN [buf |-> <<>>, sink |-> w.sink \o w.buf, err |-> w.err]
  ELSE [w EXCEPT !.err = TRUE]

\* BufWriter::write_all of one piece of data
WriteAll(w, data, ok) ==
  LET spare == BufCap - Bytes(w.buf) IN
  IF w.err THEN w
  ELSE IF Bytes(data) < spare THEN [w EXCEPT !.buf = @ \o data]
  ELSE LET w1 == IF Bytes(data) > spare THEN FlushBuf(w, ok) ELSE w IN
       IF w1.err THEN w1
       ELSE IF Bytes(data) >= BufCap
            THEN IF ok THEN [w1 EXCEPT !.sink = @ \o data]
                 ELSE [w1 EXCEPT !.err = TRUE]
            ELSE [w1 EXCEPT !.buf = @ \o data]

\* writeln!(writer, "{}", trimmed_line): the key, then one LF
Writeln(w, line, key, ok) == WriteAll(WriteAll(w, key, ok), <<LF>>, ok)

\* ------------------------------------------------------------ file system
InPaths == {"d/f1", "d/f2"}
OutPaths == {"out/f1", "out/f2"}
Paths == InPaths \cup OutPaths
Stdout == "stdout"

\* content of an output file left by an earlier run
OldOut == <<"a", LF>>

\* PathBuf::join of the output directory with the file name of path p
Join(o, p) ==
  IF o = "d" THEN p
  ELSE IF p = "d/f1" THEN "out/f1" ELSE "out/f2"

\* the merge with the duplicate_lines line left out
MergeStatsDropDup(t, s) ==
  [total_lines     |-> t.total_lines + s.total_lines,
   duplicate_lines |-> t.duplicate_lines,
   lines_written   |-> t.lines_written + s.lines_written]

\* total_stats += stats, counter by counter
MergeStats(t, s) ==
  [total_lines     |-> t.total_lines + s.total_lines,
   duplicate_lines |-> t.duplicate_lines + s.duplicate_lines,
   lines_written   |-> t.lines_written + s.lines_written]

VARIABLES
  mode,         \* "file": args.file is set, "dir": args.directory is set
  files,        \* files_to_process (one path in "file" mode)
  outOpt,       \* args.output: "none", or a path
  fs,           \* the file system: path -> [exists, enc, text]
  idx,          \* index in files of the next file of the for loop
  pc,           \* "main", "open", "create", "loop", "done"
  total_stats,  \* main's total_stats
  input_path,   \* process_file's arguments
  output_path,
  file_size,    \* process_file's locals
  encoding,
  rpos,         \* characters the reader has consumed
  wbuf,         \* bytes in the BufWriter
  sink,         \* bytes delivered to the output sink by this call
  seen_lines,
  stats,
  bytes_read,
  pb,           \* the progress bar: [len, pos, finished]
  lines,        \* history: the lines read_line returned in this call
  rawRead,      \* history: raw bytes of the input consumed in this call
  calls,        \* history: the paths passed to process_file
  results       \* history: what each process_file call returned

vars == <<mode, files, outOpt, fs, idx, pc, total_stats, input_path,
          output_path, file_size, encoding, rpos, wbuf, sink, seen_lines,
          stats, bytes_read, pb, lines, rawRead, calls, results>>

mainVars == <<mode, files, outOpt>>
locals == <<file_size, encoding, rpos, wbuf, sink, seen_lines, stats,
            bytes_read, pb, lines, rawRead>>

Texts(n) == [1..n -> Chars]

\* a file of only ASCII characters has the same bytes in both encodings
EncOf(text) == IF \E i \in 1..Len(text) : text[i] = "e9" THEN Encodings ELSE {"UTF-8"}

Missing == [exists |-> FALSE, enc |-> "UTF-8", text |-> <<>>]

InitFs(e1, t1, e2, t2) ==
  [p \in Paths |->
     IF p = "d/f1" THEN [exists |-> TRUE, enc |-> e1, text |-> t1]
     ELSE IF p = "d/f2" THEN [exists |-> TRUE, enc |-> e2, text |-> t2]
     ELSE IF p = "out/f1" THEN [exists |-> TRUE, enc |-> "UTF-8", text |-> OldOut]
     ELSE Missing]

Init ==
  /\ \E n1 \in 0..MaxLen : \E n2 \in 0..(MaxLen - n1) :
     \E t1 \in Texts(n1), t2 \in Texts(n2) :
     \E e1 \in EncOf(t1), e2 \in EncOf(t2) :
        /\ fs = InitFs(e1, t1, e2, t2)
        /\ \/ /\ mode = "dir"
              /\ files = <<"d/f1", "d/f2">>
              /\ outOpt \in {"none", "out", "d"}
           \/ /\ mode = "file"
              /\ n2 = 0
              /\ files = <<"d/f1">>
              /\ outOpt \in {"none", "out/f1", "d/f1"}
  /\ idx = 1
  /\ pc = "main"
  /\ total_stats = ZeroStats
  /\ input_path = "d/f1"
  /\ output_path = Stdout
  /\ file_size = 0
  /\ encoding = "UTF-8"
  /\ rpos = 0
  /\ wbuf = <<>>
  /\ sink = <<>>
  /\ seen_lines = {}
  /\ stats = ZeroStats
  /\ bytes_read = 0
  /\ pb = [len |-> 0, pos |-> 0, finished |-> FALSE]
  /\ lines = <<>>
  /\ rawRead = 0
  /\ calls = <<>>
  /\ results = <<>>

\* the file system once the sink of this call holds s
FsWith(s) ==
  IF output_path = Stdout THEN fs
  ELSE [fs EXCEPT ![output_path] = [exists |-> TRUE, enc |-> "UTF-8", text |-> s]]

RECURSIVE Concat(_)
Concat(ss) == IF ss = <<>> THEN <<>> ELSE Head(ss) \o Concat(Tail(ss))

\* what a call leaves behind: ok, the stage it returned from, its counters,
\* the lines it read, the bytes it gave the writer and the bytes delivered
Result(ok, stage, written, delivered) ==
  [path |-> input_path, out |-> output_path, ok |-> ok, stage |-> stage,
   stats |-> stats, lines |-> lines, written |-> written,
   delivered |-> delivered]

\* ---------------------------------------------------------------- main
\* the for loop (or the single-file branch) calls process_file
MainCall ==
  /\ pc = "main"
  /\ idx <= Len(files)
  /\ input_path' = files[idx]
  /\ output_path' = IF outOpt = "none" THEN Stdout
                    ELSE IF mode = "dir" THEN Join(outOpt, files[idx])
                    ELSE outOpt
  /\ calls' = Append(calls, files[idx])
  /\ pc' = "open"
  /\ UNCHANGED <<mainVars, fs, idx, total_stats, locals, results>>

\* after the last file: total_stats.duration and the final report
MainFinish ==
  /\ pc = "main"
  /\ idx > Len(files)
  /\ pc' = "done"
  /\ UNCHANGED <<mainVars, fs, idx, total_stats, input_path, output_path,
                 locals, calls, results>>

\* the error propagated out of main instead of reported: the loop ends
ReturnErrAbort(r) ==
  /\ results' = Append(results, r)
  /\ total_stats' = total_stats
  /\ idx' = Len(files) + 1
  /\ pc' = "main"

\* the Err arm of the match on process_file's result, and the next iteration
ReturnErr(r) ==
  /\ results' = Append(results, r)
  /\ total_stats' = total_stats
  /\ idx' = idx + 1
  /\ pc' = "main"

\* the Ok arm of the match on process_file's result, and the next iteration
ReturnOk(r) ==
  /\ results' = Append(results, r)
  /\ total_stats' = IF mode = "dir" THEN MergeStats(total_stats, r.stats) ELSE r.stats
  /\ idx' = idx + 1
  /\ pc' = "main"

\* -------------------------------------------------------- process_file
\* File::open, metadata, read_to_end, chardet::detect, File::open again
PfOpenOk ==
  /\ pc = "open"
  /\ fs[input_path].exists
  /\ file_size' = RawBytes(fs[input_path].enc, fs[input_path].text)
  /\ encoding' = fs[input_path].enc
  /\ rpos' = 0
  /\ pc' = "create"
  /\ UNCHANGED <<mainVars, fs, idx, total_stats, input_path, output_path,
                 wbuf, sink, seen_lines, stats, bytes_read, pb, lines,
                 rawRead, calls, results>>

\* the failure of the open with the output created before the input is opened
PfOpenErrTruncating ==
  /\ pc = "open"
  /\ fs' = IF output_path = Stdout THEN fs
           ELSE [fs EXCEPT ![output_path] = [exists |-> TRUE, enc |-> "UTF-8", text |-> <<>>]]
  /\ ReturnErr([path |-> input_path, out |-> output_path, ok |-> FALSE,
                stage |-> "open", stats |-> ZeroStats, lines |-> <<>>,
                written |-> <<>>, delivered |-> <<>>])
  /\ UNCHANGED <<mainVars, input_path, output_path, locals, calls>>

\* one of the opens or reads of the input fails: process_file returns Err
PfOpenErr ==
  /\ pc = "open"
  /\ ReturnErr([path |-> input_path, out |-> output_path, ok |-> FALSE,
                stage |-> "open", stats |-> ZeroStats, lines |-> <<>>,
                written |-> <<>>, delivered |-> <<>>])
  /\ UNCHANGED <<mainVars, fs, input_path, output_path, locals, calls>>

\* the locals with the set kept from the previous call
LoopInitKeepSeen(prevSeen) ==
  [seen_lines |-> prevSeen, stats |-> ZeroStats, bytes_read |-> 0]

\* the locals set up before the loop: HashSet::new(), Stats::default(), 0
LoopInit(prevSeen) ==
  [seen_lines |-> {}, stats |-> ZeroStats, bytes_read |-> 0]

\* create_dir_all, File::create (or stdout), the locals and the progress bar
PfCreateOk ==
  /\ pc = "create"
  /\ wbuf' = <<>>
  /\ sink' = <<>>
  /\ fs' = IF output_path = Stdout THEN fs
           ELSE [fs EXCEPT ![output_path] = [exists |-> TRUE, enc |-> "UTF-8", text |-> <<>>]]
  /\ LET l == LoopInit(seen_lines) IN
       /\ seen_lines' = l.seen_lines
       /\ stats' = l.stats
       /\ bytes_read' = l.bytes_read
  /\ pb' = [len |-> file_size, pos |-> 0, finished |-> FALSE]
  /\ lines' = <<>>
  /\ rawRead' = 0
  /\ pc' = "loop"
  /\ UNCHANGED <<mainVars, idx, total_stats, input_path, output_path,
                 file_size, encoding, rpos, calls, results>>

\* create_dir_all or File::create fails: process_file returns Err
PfCreateErr ==
  /\ pc = "create"
  /\ output_path # Stdout
  /\ ReturnErr([path |-> input_path, out |-> output_path, ok |-> FALSE,
                stage |-> "create", stats |-> ZeroStats, lines |-> <<>>,
                written |-> <<>>, delivered |-> <<>>])
  /\ UNCHANGED <<mainVars, fs, input_path, output_path, locals, calls>>

\* one iteration of the while loop: read_line returned a line.  ok is
\* whether the sink accepts writes during the iteration, okDrop whether it
\* accepts the flush of the writer dropped on the error return.
PfLoopLine ==
  /\ pc = "loop"
  /\ LET line == ReadLine(fs[input_path].text, rpos) IN
     /\ line # <<>>
     /\ \E ok \in BOOLEAN, okDrop \in BOOLEAN :
        LET d  == DedupStep(seen_lines, stats, line)
            w0 == [buf |-> wbuf, sink |-> sink, err |-> FALSE]
            w  == IF d.emit THEN Writeln(w0, line, d.key, ok) ELSE w0
            wd == FlushBuf(w, okDrop)
        IN
        /\ rpos' = rpos + Len(line)
        /\ rawRead' = rawRead + RawBytes(encoding, line)
        /\ bytes_read' = bytes_read + Bytes(line)
        /\ pb' = [pb EXCEPT !.pos = bytes_read + Bytes(line)]
        /\ lines' = Append(lines, line)
        /\ IF w.err
           THEN /\ wbuf' = wd.buf
                /\ sink' = wd.sink
                /\ fs' = FsWith(wd.sink)
                /\ UNCHANGED <<seen_lines, stats>>
                /\ ReturnErr([path |-> input_path, out |-> output_path,
                              ok |-> FALSE, stage |-> "write", stats |-> stats,
                              lines |-> Append(lines, line),
                              written |-> sink \o wbuf, delivered |-> wd.sink])
           ELSE /\ okDrop = TRUE
                /\ wbuf' = w.buf
                /\ sink' = w.sink
                /\ fs' = FsWith(w.sink)
                /\ seen_lines' = d.seen
                /\ stats' = d.stats
                /\ UNCHANGED <<idx, pc, total_stats, results>>
  /\ UNCHANGED <<mainVars, input_path, output_path, file_size, encoding, calls>>

\* read_line returns an I/O error: process_file returns Err, dropping the
\* writer, whose flush may or may not reach the sink
PfLoopReadErr ==
  /\ pc = "loop"
  /\ \E okDrop \in BOOLEAN :
     LET wd == FlushBuf([buf |-> wbuf, sink |-> sink, err |-> FALSE], okDrop) IN
     /\ wbuf' = wd.buf
     /\ sink' = wd.sink
     /\ fs' = FsWith(wd.sink)
     /\ ReturnErr(Result(FALSE, "read", sink \o wbuf, wd.sink))
  /\ UNCHANGED <<mainVars, input_path, output_path, file_size, encoding,
                 rpos, seen_lines, stats, bytes_read, pb, lines, rawRead, calls>>

\* read_line returns 0: pb.finish_with_message, Ok(stats), and the writer
\* is dropped: BufWriter's drop flushes and ignores the flush's error
PfFinish ==
  /\ pc = "loop"
  /\ ReadLine(fs[input_path].text, rpos) = <<>>
  /\ \E okDrop \in BOOLEAN :
     LET wd == FlushBuf([buf |-> wbuf, sink |-> sink, err |-> FALSE], okDrop) IN
     /\ wbuf' = wd.buf
     /\ sink' = wd.sink
     /\ fs' = FsWith(wd.sink)
     /\ ReturnOk(Result(TRUE, "done", sink \o wbuf, wd.sink))
  /\ pb' = [pb EXCEPT !.finished = TRUE]
  /\ UNCHANGED <<mainVars, input_path, output_path, file_size, encoding,
                 rpos, seen_lines, stats, bytes_read, lines, rawRead, calls>>

Next ==
  \/ MainCall
  \/ MainFinish
  \/ PfOpenOk
  \/ PfOpenErr
  \/ PfCreateOk
  \/ PfCreateErr
  \/ PfLoopLine
  \/ PfLoopReadErr
  \/ PfFinish

Spec == Init /\ [][Next]_vars

RECURSIVE DedupFrom(_, _, _, _, _)
\* the dedup loop run to the end of text from position pos, on a sink that
\* accepts every write
DedupFrom(text, pos, seen, st, w) ==
  LET line == ReadLine(text, pos) IN
  IF line = <<>> THEN [stats |-> st, output |-> FlushBuf(w, TRUE).sink]
  ELSE LET d == DedupStep(seen, st, line) IN
       DedupFrom(text, pos + Len(line), d.seen, d.stats,
                 IF d.emit THEN Writeln(w, line, d.key, TRUE) ELSE w)

\* process_file's loop on a whole text: its Stats and the bytes it delivers
DedupAll(text) ==
  DedupFrom(text, 0, LoopInit({}).seen_lines, LoopInit({}).stats,
            [buf |-> <<>>, sink |-> <<>>, err |-> FALSE])

\* ====================================================================
\* Properties
\* ====================================================================
OkResults == {i \in 1..Len(results) : results[i].ok}

\* the lines of ls whose key no earlier line of ls produced
FirstIdx(ls) ==
  {i \in 1..Len(ls) : \A j \in 1..(i - 1) : TrimEnd(ls[j]) # TrimEnd(ls[i])}

RECURSIVE FirstOccText(_, _)
\* the keys of the first occurrences among ls[1..n], in order, one LF after each
FirstOccText(ls, n) ==
  IF n = 0 THEN <<>>
  ELSE FirstOccText(ls, n - 1) \o
       (IF n \in FirstIdx(ls) THEN TrimEnd(ls[n]) \o <<LF>> ELSE <<>>)

FirstOccOk(ls, written, st) ==
  /\ written = FirstOccText(ls, Len(ls))
  /\ st.lines_written = Cardinality(FirstIdx(ls))
  /\ st.duplicate_lines = Len(ls) - Cardinality(FirstIdx(ls))

\* C1: what process_file writes is the sequence of first occurrences of each
\* distinct dedup key (the empty key included) in input order, one line per
\* key; the later repeats are counted in duplicate_lines and not written.
\* It holds after every iteration of the loop and for every returned Ok.
C1_FirstOccurrences ==
  /\ pc = "loop" => FirstOccOk(lines, sink \o wbuf, stats)
  /\ \A i \in OkResults :
       FirstOccOk(results[i].lines, results[i].written, results[i].stats)

\* a returned Ok whose input repeated a line and had two distinct keys
C1_Witness ==
  \E i \in OkResults :
    /\ results[i].stats.duplicate_lines >= 1
    /\ results[i].stats.lines_written >= 2

Balanced(st) == st.total_lines = st.duplicate_lines + st.lines_written

\* C2: total_lines = duplicate_lines + lines_written for the loop's Stats
\* after every iteration, for every Stats process_file returns, and for
\* main's run total after any mix of successful and failed files.
C2_StatsBalance ==
  /\ Balanced(stats)
  /\ Balanced(total_stats)
  /\ \A i \in OkResults : Balanced(results[i].stats)

\* a finished directory run with a failed file and a file with a duplicate
C2_Witness ==
  /\ pc = "done"
  /\ mode = "dir"
  /\ \E i \in 1..Len(results) : ~results[i].ok
  /\ total_stats.duplicate_lines >= 1
  /\ total_stats.lines_written >= 1

\* the line with exactly its trailing terminator (CR LF, LF or CR) removed
StripTerminator(line) ==
  IF Len(line) >= 2 /\ line[Len(line) - 1] = CR /\ Last(line) = LF
  THEN SubSeq(line, 1, Len(line) - 2)
  ELSE IF line # <<>> /\ Last(line) \in {LF, CR} THEN Front(line)
  ELSE line

StripFirstIdx(ls) ==
  {i \in 1..Len(ls) :
     \A j \in 1..(i - 1) : StripTerminator(ls[j]) # StripTerminator(ls[i])}

RECURSIVE StripFirstOccText(_, _)
StripFirstOccText(ls, n) ==
  IF n = 0 THEN <<>>
  ELSE StripFirstOccText(ls, n - 1) \o
       (IF n \in StripFirstIdx(ls) THEN StripTerminator(ls[n]) \o <<LF>> ELSE <<>>)

\* C3: the dedup key of a line is the line with exactly its trailing
\* terminator removed: the keys seen are those, lines that differ only in
\* trailing spaces are both written, and each keeps its trailing spaces.
C3_KeyIsLineWithoutTerminator ==
  pc = "loop" =>
    /\ seen_lines = {StripTerminator(lines[i]) : i \in 1..Len(lines)}
    /\ sink \o wbuf = StripFirstOccText(lines, Len(lines))

RECURSIVE SumOk(_, _)
\* the counters of the Ok results among rs[1..n], summed
SumOk(rs, n) ==
  IF n = 0 THEN ZeroStats
  ELSE LET t == SumOk(rs, n - 1) IN
       IF rs[n].ok
       THEN [total_lines     |-> t.total_lines + rs[n].stats.total_lines,
             duplicate_lines |-> t.duplicate_lines + rs[n].stats.duplicate_lines,
             lines_written   |-> t.lines_written + rs[n].stats.lines_written]
       ELSE t

\* C4: in directory mode the files are passed to process_file once each in
\* enumeration order whether or not earlier files failed, and the run total
\* is the sum of the counters of the files that returned Ok.
C4_BatchContinues ==
  mode = "dir" =>
    /\ calls = SubSeq(files, 1, Len(calls))
    /\ pc = "main" => Len(calls) = idx - 1 /\ Len(results) = idx - 1
    /\ pc \in {"main", "done"} => total_stats = SumOk(results, Len(results))
    /\ pc = "done" => calls = files /\ Len(results) = Len(files)

\* a finished directory run whose first file failed after reading a line
\* and whose second file returned Ok with lines
C4_Witness ==
  /\ pc = "done"
  /\ mode = "dir"
  /\ Len(results) = 2
  /\ ~results[1].ok
  /\ results[1].lines # <<>>
  /\ results[2].ok
  /\ results[2].stats.total_lines >= 1

C6_ProgressIsRawBytes ==
  (pc = "loop" \/ pb.finished) /\ output_path # input_path =>
    /\ pb.pos = rawRead
    /\ pb.pos <= pb.len
    /\ pb.finished => pb.pos = pb.len

HasCR(text) == \E i \in 1..Len(text) : text[i] = CR

RECURSIVE Render(_, _, _)
\* the contents cs, each followed by the terminator term, the last one only
\* when final
Render(cs, term, final) ==
  IF cs = <<>> THEN <<>>
  ELSE IF Len(cs) = 1 THEN Head(cs) \o (IF final THEN term ELSE <<>>)
  ELSE Head(cs) \o term \o Render(Tail(cs), term, final)

Terminators == {<<LF>>, <<CR, LF>>, <<CR>>}

\* C7: for line contents without line terminators of their own, the output
\* and the Stats are the same whether the lines end in LF, CR LF or a bare
\* CR and whether or not a non-empty last line has a terminator, and no CR
\* is left in the output.
C7_TerminatorIndependent ==
  \A i \in OkResults :
    LET r  == results[i]
        cs == [k \in 1..Len(r.lines) |-> StripTerminator(r.lines[k])]
    IN (\A k \in 1..Len(cs) : ~HasCR(cs[k])) =>
         /\ ~HasCR(r.written)
         /\ \A term \in Terminators, final \in BOOLEAN :
              (final \/ (cs # <<>> /\ Last(cs) # <<>>)) =>
                DedupAll(Render(cs, term, final)) =
                  [stats |-> r.stats, output |-> r.written]

\* C8: the set of seen lines is empty at the start of every file, and the
\* Stats and the output of every call are those of the dedup loop run on
\* the text of that call alone.
C8_SeenScopedToFile ==
  /\ pc = "loop" /\ lines = <<>> => seen_lines = {}
  /\ \A i \in OkResults :
       DedupAll(Concat(results[i].lines)) =
         [stats |-> results[i].stats, output |-> results[i].written]

\* a directory run in which the second file wrote again what the first wrote
C8_Witness ==
  /\ Len(results) = 2
  /\ results[1].ok
  /\ results[2].ok
  /\ results[1].written # <<>>
  /\ results[2].written = results[1].written

\* C9: process_file returns Ok only if everything it wrote has been
\* delivered to the sink; a failed write, the final flush included, makes it
\* return Err.
C9_OkMeansDelivered ==
  \A i \in OkResults : results[i].delivered = results[i].written

\* C10: the output is created only after the input has been opened, sampled
\* and re-opened, and before the first line is read; a failure to open the
\* input leaves the file system as it was; and when the output path is the
\* input path the loop reads no line, the Stats are zero and the file is
\* left empty.
C10_CreateAfterOpenBeforeRead ==
  [][ /\ pc \in {"main", "open"} => fs' = fs
      /\ pc = "create" /\ pc' = "loop" =>
           /\ lines' = <<>> /\ rpos' = 0
           /\ output_path # Stdout => fs'[output_path].text = <<>>
      /\ pc = "loop" /\ output_path = input_path =>
           /\ pc' = "loop" \/ pc' = "main"
           /\ lines' = <<>> \/ ~results'[Len(results')].ok
           /\ results' # results /\ results'[Len(results')].ok =>
                /\ results'[Len(results')].stats = ZeroStats
                /\ fs'[input_path].text = <<>>
    ]_vars

\* a returned Ok of a call whose output path was its non-empty input
C10_Witness ==
  /\ pc = "main"
  /\ results # <<>>
  /\ results[Len(results)].ok
  /\ results[Len(results)].out = results[Len(results)].path
  /\ file_size > 0
  /\ fs[results[Len(results)].path].text = <<>>
====
